---- MODULE Spec2Model ----
(***************************************************************************)
(* The dashboard client of frontend/app.js as a state machine: the theme   *)
(* preference, the symbol catalogue, the analysis and positions views and  *)
(* the table toolbar (filter, CSV export), with the fetches in flight.     *)
(*                                                                         *)
(* JavaScript strings are sequences of one-character strings, so that      *)
(* toLowerCase, includes, trim, replace and join are computed.             *)
(***************************************************************************)
EXTENDS Integers, Sequences, FiniteSets

VARIABLES
    loaded,          \* the DOMContentLoaded handler has run on this document
    storedTheme,     \* localStorage item 'theme': NoItem, or a text
    dataTheme,       \* <html data-theme="light"> is set
    toggleChecked,   \* #themeToggle.checked
    options,         \* the <option>s of #symbol, in order (their value = text)
    selected,        \* index of the selected option of #symbol, 0 when none
    pending,         \* the fetches in flight, in the order they were issued
    volChart,        \* what Plotly.newPlot('volChart', ...) last drew
    rangeChart,      \* what Plotly.newPlot('rangeChart', ...) last drew
    analysisTable,   \* the <table> inside #table
    positionsTable,  \* the <table> inside #positionsTable
    search,          \* #globalSearch.value
    last             \* the handler that ran last: its input, and what it
                     \* put out (its alert() calls, the file it saved)

vars == <<loaded, storedTheme, dataTheme, toggleChecked, options, selected,
          pending, volChart, rangeChart, analysisTable, positionsTable,
          search, last>>

-----------------------------------------------------------------------------
(* Bounds of the model. *)

\* fetches in flight at the same time
MaxInFlight == 2
\* tokens a sampled status text is made of
MaxTokens == 3

-----------------------------------------------------------------------------
(* Strings. *)

TAB == "\t"
LF == "\n"
QUOTE == "\""

\* String.prototype.toLowerCase, one character
ToLowerChar(c) ==
    CASE c = "A" -> "a" [] c = "B" -> "b" [] c = "C" -> "c" [] c = "D" -> "d"
      [] c = "E" -> "e" [] c = "F" -> "f" [] c = "G" -> "g" [] c = "H" -> "h"
      [] c = "I" -> "i" [] c = "J" -> "j" [] c = "K" -> "k" [] c = "L" -> "l"
      [] c = "M" -> "m" [] c = "N" -> "n" [] c = "O" -> "o" [] c = "P" -> "p"
      [] c = "Q" -> "q" [] c = "R" -> "r" [] c = "S" -> "s" [] c = "T" -> "t"
      [] c = "U" -> "u" [] c = "V" -> "v" [] c = "W" -> "w" [] c = "X" -> "x"
      [] c = "Y" -> "y" [] c = "Z" -> "z" [] OTHER -> c

toLowerCase(s) == [i \in 1..Len(s) |-> ToLowerChar(s[i])]

\* String.prototype.includes
includes(s, k) ==
    \E i \in 1..(Len(s) - Len(k) + 1) : SubSeq(s, i, i + Len(k) - 1) = k

IsSpace(c) == c \in {" ", TAB, LF}

RECURSIVE TrimStart(_)
TrimStart(s) ==
    IF s # <<>> /\ IsSpace(Head(s)) THEN TrimStart(Tail(s)) ELSE s

RECURSIVE TrimEnd(_)
TrimEnd(s) ==
    IF s # <<>> /\ IsSpace(s[Len(s)]) THEN TrimEnd(SubSeq(s, 1, Len(s) - 1))
    ELSE s

\* String.prototype.trim
trim(s) == TrimEnd(TrimStart(s))

\* the concatenation of the texts of ss
RECURSIVE Concat(_)
Concat(ss) == IF ss = <<>> THEN <<>> ELSE Head(ss) \o Concat(Tail(ss))

\* Array.prototype.join
RECURSIVE join(_, _)
join(ss, sep) ==
    IF ss = <<>> THEN <<>>
    ELSE IF Len(ss) = 1 THEN ss[1]
    ELSE ss[1] \o sep \o join(Tail(ss), sep)

-----------------------------------------------------------------------------
(* JSON values as the handlers see them. A number is m / 10^e, with m not   *)
(* a multiple of 10 when e > 0 (120.5 is m = 1205, e = 1).                  *)

Undefined == [t |-> "undefined", s |-> <<>>, m |-> 0, e |-> 0]
Null == [t |-> "null", s |-> <<>>, m |-> 0, e |-> 0]
Str(x) == [t |-> "string", s |-> x, m |-> 0, e |-> 0]
Num(mant, places) == [t |-> "number", s |-> <<>>, m |-> mant, e |-> places]

DigitChar(d) ==
    CASE d = 0 -> "0" [] d = 1 -> "1" [] d = 2 -> "2" [] d = 3 -> "3"
      [] d = 4 -> "4" [] d = 5 -> "5" [] d = 6 -> "6" [] d = 7 -> "7"
      [] d = 8 -> "8" [] d = 9 -> "9"

RECURSIVE Digits(_)
Digits(n) ==
    IF n < 10 THEN <<DigitChar(n)>>
    ELSE Digits(n \div 10) \o <<DigitChar(n % 10)>>

RECURSIVE Zeros(_)
Zeros(n) == IF n <= 0 THEN <<>> ELSE <<"0">> \o Zeros(n - 1)

\* Number::toString of m / 10^e (decimal notation, no exponent)
NumberToString(mant, places) ==
    IF places = 0 THEN Digits(mant)
    ELSE LET ds == Digits(mant)
             padded == Zeros(places + 1 - Len(ds)) \o ds
             cut == Len(padded) - places
         IN  SubSeq(padded, 1, cut) \o <<".">>
                 \o SubSeq(padded, cut + 1, Len(padded))

\* String(v)
JSString(v) ==
    CASE v.t = "string" -> v.s
      [] v.t = "number" -> NumberToString(v.m, v.e)
      [] v.t = "null" -> <<"n", "u", "l", "l">>
      [] OTHER -> <<"u", "n", "d", "e", "f", "i", "n", "e", "d">>

\* !v
IsFalsy(v) ==
    \/ v.t \in {"undefined", "null"}
    \/ v.t = "string" /\ v.s = <<>>
    \/ v.t = "number" /\ v.m = 0

\* node.textContent = v: null and undefined give the empty text
SetTextContent(v) == IF v.t \in {"undefined", "null"} THEN <<>> ELSE JSString(v)

\* v ?? ''
OrEmpty(v) == IF v.t \in {"undefined", "null"} THEN Str(<<>>) ELSE v

-----------------------------------------------------------------------------
(* Texts the program writes. *)

T_light == <<"l", "i", "g", "h", "t">>
T_dark == <<"d", "a", "r", "k">>
T_hour_utc == <<"h", "o", "u", "r", "_", "u", "t", "c">>
T_avg_volume == <<"a", "v", "g", "_", "v", "o", "l", "u", "m", "e">>
T_avg_range == <<"a", "v", "g", "_", "r", "a", "n", "g", "e">>
T_symbol == <<"s", "y", "m", "b", "o", "l">>
T_side == <<"s", "i", "d", "e">>
T_size == <<"s", "i", "z", "e">>
T_entry_price == <<"e", "n", "t", "r", "y", "_", "p", "r", "i", "c", "e">>
T_status == <<"s", "t", "a", "t", "u", "s">>
T_export_name == <<"a", "n", "a", "l", "y", "s", "i", "s", "_", "e", "x", "p",
                   "o", "r", "t", ".", "c", "s", "v">>

\* the keywords of mapStatusToBadge
K_open == <<"o", "p", "e", "n">>
K_active == <<"a", "c", "t", "i", "v", "e">>
K_live == <<"l", "i", "v", "e">>
K_closed == <<"c", "l", "o", "s", "e", "d">>
K_filled == <<"f", "i", "l", "l", "e", "d">>
K_cancel == <<"c", "a", "n", "c", "e", "l">>
K_partial == <<"p", "a", "r", "t", "i", "a", "l">>
K_warning == <<"w", "a", "r", "n", "i", "n", "g">>
K_risk == <<"r", "i", "s", "k">>

-----------------------------------------------------------------------------
(* What the backend may answer: the inputs of the handlers. *)

T_BTC == <<"B", "T", "C">>
T_ETH == <<"E", "T", "H">>

\* HourlyStat records
H0 == [hour_utc |-> Num(0, 0), avg_volume |-> Num(10, 0), avg_range |-> Num(1, 0)]
H1 == [hour_utc |-> Num(1, 0), avg_volume |-> Num(20, 0), avg_range |-> Num(2, 0)]
H3 == [hour_utc |-> Num(3, 0), avg_volume |-> Num(1205, 1), avg_range |-> Num(2, 2)]
\* a record whose volume is a text with a double quote and whose range is missing
HQ == [hour_utc |-> Num(5, 0), avg_volume |-> Str(<<"a", QUOTE, "b">>),
       avg_range |-> Undefined]

\* Position records
PBTC == [symbol |-> Str(T_BTC), side |-> Str(<<"l", "o", "n", "g">>),
         size |-> Num(1, 0), entry_price |-> Num(100, 0),
         status |-> Str(<<"O", "p", "e", "n">>)]
PETH == [symbol |-> Str(T_ETH), side |-> Str(<<"s", "h", "o", "r", "t">>),
         size |-> Num(2, 0), entry_price |-> Num(505, 1),
         status |-> Str(<<"p", "a", "r", "t", "i", "a", "l">>)]
\* a record with fields missing
PBare == [symbol |-> Str(T_ETH), side |-> Undefined, size |-> Null,
          entry_price |-> Num(0, 0), status |-> Undefined]

\* A response body: res.json() rejects ("invalid"), or gives a JSON value
\* that is not an array ("object"), or an array of items.
InvalidBody == [k |-> "invalid", items |-> <<>>]
ObjectBody == [k |-> "object", items |-> <<>>]
ArrayBody(items) == [k |-> "array", items |-> items]

SymbolLists == {<<>>, <<Str(T_BTC), Str(T_ETH)>>, <<Str(T_ETH)>>}
AnalysisLists == {<<>>, <<H0, H1>>, <<H1, H0>>, <<H3>>, <<HQ>>}
PositionsLists == {<<>>, <<PBTC>>, <<PBTC, PETH>>, <<PBare>>}

Bodies(lists) == {InvalidBody, ObjectBody} \cup {ArrayBody(l) : l \in lists}

\* Status values: texts of up to MaxTokens tokens (the keywords in several
\* cases, pieces of keywords, fillers), and values that are no text
StatusTokens ==
    { <<"O", "p", "e", "n">>, <<"A", "C", "T", "I", "V", "E">>,
      <<"l", "i", "v", "e">>, <<"C", "l", "o", "s", "e", "d">>,
      <<"F", "I", "L", "L", "E", "D">>, <<"c", "a", "n", "c", "e", "l">>,
      <<"P", "a", "r", "t", "i", "a", "l">>,
      <<"W", "A", "R", "N", "I", "N", "G">>, <<"r", "i", "s", "k">>,
      <<"o", "p">>, <<"E", "N">>, <<"x">>, <<"_">> }

RECURSIVE TokenTexts(_)
TokenTexts(n) ==
    IF n = 0 THEN {<<>>}
    ELSE LET shorter == TokenTexts(n - 1)
         IN  shorter \cup {t \o k : t \in shorter, k \in StatusTokens}

StatusInputs ==
    {Str(t) : t \in TokenTexts(MaxTokens)}
        \cup {Undefined, Null, Num(0, 0), Num(7, 0)}

\* what the user may type into #globalSearch
SearchInputs ==
    { <<>>, <<"1", "2">>, <<"1", "2", "0">>, <<" ", "B", "t", "c", " ">>,
      <<" ">> }

-----------------------------------------------------------------------------
(* The document. *)

NoItem == [set |-> FALSE, v |-> <<>>]
Item(text) == [set |-> TRUE, v |-> text]

NoTable == [present |-> FALSE, head |-> <<>>, rows |-> <<>>]
NoChart == [present |-> FALSE, x |-> <<>>, y |-> <<>>]
NoDownload == [saved |-> FALSE, name |-> <<>>, csv |-> <<>>]
NoBody == [k |-> "none", items |-> <<>>]

\* a fetch in flight; overtaken (history): an analysis load issued after this
\* one has already rendered
Request(kind, sym) == [kind |-> kind, sym |-> sym, overtaken |-> FALSE]

\* a run of a handler: op names it; ok, body and overtaken are its input (the
\* response and the fetch it answers); alerts counts its alert() calls and
\* file is the download it triggered
Event(op, ok, body, overtaken, alerts, file) ==
    [op |-> op, ok |-> ok, body |-> body, overtaken |-> overtaken,
     alerts |-> alerts, file |-> file]

\* a run of a handler that reads no response and puts nothing out
Ran(op) == Event(op, TRUE, NoBody, FALSE, 0, NoDownload)

\* symbolSel.value
SymbolValue == IF selected = 0 THEN <<>> ELSE options[selected].value

\* SavedTheme with the default the other way round: || 'light'
SavedThemeLightDefault ==
    IF storedTheme.set /\ storedTheme.v # <<>> THEN storedTheme.v ELSE T_light

\* localStorage.getItem('theme') || 'dark'
SavedTheme ==
    IF storedTheme.set /\ storedTheme.v # <<>> THEN storedTheme.v ELSE T_dark

-----------------------------------------------------------------------------
(* The pure parts of the handlers. *)

\* mapStatusToBadge with the warning rule tried before the closed rule
mapStatusToBadgeWarningFirst(status) ==
    IF IsFalsy(status) THEN "muted"
    ELSE LET s == toLowerCase(JSString(status))
         IN  IF includes(s, K_open) \/ includes(s, K_active) \/ includes(s, K_live)
               THEN "success"
             ELSE IF includes(s, K_partial) \/ includes(s, K_warning)
                        \/ includes(s, K_risk)
               THEN "warning"
             ELSE IF includes(s, K_closed) \/ includes(s, K_filled)
                        \/ includes(s, K_cancel)
               THEN "muted"
             ELSE "muted"

mapStatusToBadge(status) ==
    IF IsFalsy(status) THEN "muted"
    ELSE LET s == toLowerCase(JSString(status))
         IN  IF includes(s, K_open) \/ includes(s, K_active) \/ includes(s, K_live)
               THEN "success"
             ELSE IF includes(s, K_closed) \/ includes(s, K_filled)
                        \/ includes(s, K_cancel)
               THEN "muted"
             ELSE IF includes(s, K_partial) \/ includes(s, K_warning)
                        \/ includes(s, K_risk)
               THEN "warning"
             ELSE "muted"

\* the trace renderCharts hands to Plotly.newPlot: x and y as received
ChartOf(data, field) ==
    [present |-> TRUE,
     x |-> [i \in 1..Len(data) |-> data[i].hour_utc],
     y |-> [i \in 1..Len(data) |-> data[i][field]]]

\* renderTable that re-applies the query of the search box to the rows it
\* builds
renderTableFiltered(data) ==
    [present |-> TRUE,
     head |-> <<T_hour_utc, T_avg_volume, T_avg_range>>,
     rows |-> [i \in 1..Len(data) |->
                 LET cells == <<SetTextContent(data[i].hour_utc),
                                SetTextContent(data[i].avg_volume),
                                SetTextContent(data[i].avg_range)>>
                     q == trim(toLowerCase(search))
                 IN  [cells |-> cells,
                      badge |-> "",
                      hidden |-> q # <<>>
                                   /\ ~includes(toLowerCase(join(cells, <<TAB>>)), q)]]]

\* renderTable with each row put before the earlier ones (insertBefore for
\* appendChild)
renderTablePrepending(data) ==
    [present |-> TRUE,
     head |-> <<T_hour_utc, T_avg_volume, T_avg_range>>,
     rows |-> [i \in 1..Len(data) |->
                 [cells |-> <<SetTextContent(data[Len(data) + 1 - i].hour_utc),
                              SetTextContent(data[Len(data) + 1 - i].avg_volume),
                              SetTextContent(data[Len(data) + 1 - i].avg_range)>>,
                  badge |-> "",
                  hidden |-> FALSE]]]

\* the <table> renderTable builds
renderTable(data) ==
    [present |-> TRUE,
     head |-> <<T_hour_utc, T_avg_volume, T_avg_range>>,
     rows |-> [i \in 1..Len(data) |->
                 [cells |-> <<SetTextContent(data[i].hour_utc),
                              SetTextContent(data[i].avg_volume),
                              SetTextContent(data[i].avg_range)>>,
                  badge |-> "",
                  hidden |-> FALSE]]]

\* the <table> renderPositionsTable builds; the last cell holds the badge span
renderPositionsTable(positions) ==
    [present |-> TRUE,
     head |-> <<T_symbol, T_side, T_size, T_entry_price, T_status>>,
     rows |-> [i \in 1..Len(positions) |->
                 [cells |-> <<SetTextContent(OrEmpty(positions[i].symbol)),
                              SetTextContent(OrEmpty(positions[i].side)),
                              SetTextContent(OrEmpty(positions[i].size)),
                              SetTextContent(OrEmpty(positions[i].entry_price)),
                              SetTextContent(OrEmpty(positions[i].status))>>,
                  badge |-> mapStatusToBadge(positions[i].status),
                  hidden |-> FALSE]]]

\* the <option>s fetchSymbols appends
OptionsOf(list) ==
    [i \in 1..Len(list) |->
        [value |-> JSString(list[i]), text |-> SetTextContent(list[i])]]

\* tr.innerText. A row that is rendered gives its cells' texts separated by
\* tabs; a row with display:none is not being rendered, and innerText is then
\* its textContent: the cells' texts one after the other, with no separator.
\* (The texts of the model hold no white space for the rendering to collapse.)
RowInnerText(row) ==
    IF row.hidden THEN Concat(row.cells) ELSE join(row.cells, <<TAB>>)

\* th.innerText, td.innerText: the cell's text, rendered or not
CellInnerText(cell) == cell

\* the body rows of a table after filterTables(q)
FilterRows(rows, q) ==
    [i \in 1..Len(rows) |->
        [rows[i] EXCEPT
           !.hidden = ~(q = <<>> \/ includes(toLowerCase(RowInnerText(rows[i])), q))]]

\* filterTables(q) on one container: querySelectorAll finds no table in an
\* empty container
filterTable(table, q) ==
    IF table.present THEN [table EXCEPT !.rows = FilterRows(table.rows, q)]
    ELSE table

\* String.prototype.replace(/"/g, '""')
RECURSIVE DoubleQuotes(_)
DoubleQuotes(s) ==
    IF s = <<>> THEN <<>>
    ELSE (IF Head(s) = QUOTE THEN <<QUOTE, QUOTE>> ELSE <<Head(s)>>)
             \o DoubleQuotes(Tail(s))

\* one row of the export: the quoted cells joined by commas, and a line feed
CsvLine(cells) ==
    join([i \in 1..Len(cells) |->
            <<QUOTE>> \o DoubleQuotes(CellInnerText(cells[i])) \o <<QUOTE>>],
         <<",">>) \o <<LF>>

\* CsvOf that leaves out the rows the filter has hidden
CsvOfShownRows(table) ==
    CsvLine(table.head)
        \o Concat([i \in 1..Len(table.rows) |->
                     IF table.rows[i].hidden THEN <<>>
                     ELSE CsvLine(table.rows[i].cells)])

\* the csv text exportCurrentTableCSV builds from every <tr> of the table
CsvOf(table) ==
    CsvLine(table.head)
        \o Concat([i \in 1..Len(table.rows) |-> CsvLine(table.rows[i].cells)])

-----------------------------------------------------------------------------
(* The state before the DOMContentLoaded handler has run: the served page,  *)
(* with empty containers, and nothing stored on a first visit.              *)

Init ==
    /\ loaded = FALSE
    /\ storedTheme = NoItem
    /\ dataTheme = FALSE
    /\ toggleChecked = FALSE
    /\ options = <<>>
    /\ selected = 0
    /\ pending = <<>>
    /\ volChart = NoChart
    /\ rangeChart = NoChart
    /\ analysisTable = NoTable
    /\ positionsTable = NoTable
    /\ search = <<>>
    /\ last = Ran("init")

RemoveAt(seq, i) == SubSeq(seq, 1, i - 1) \o SubSeq(seq, i + 1, Len(seq))

\* The DOMContentLoaded handler: apply the stored theme, bind the listeners,
\* and call fetchSymbols().
PageLoad ==
    /\ ~loaded
    /\ loaded' = TRUE
    /\ dataTheme' = (SavedTheme = T_light)
    /\ toggleChecked' = (SavedTheme = T_light)
    /\ pending' = Append(pending, Request("symbols", <<>>))
    /\ last' = Ran("load")
    /\ UNCHANGED <<storedTheme, options, selected, volChart, rangeChart,
                   analysisTable, positionsTable, search>>

\* The user reloads the page: a new document, whose handler has not run yet;
\* the callbacks of the old document are gone. localStorage and the saved
\* file stay.
Reload ==
    /\ loaded
    /\ loaded' = FALSE
    /\ dataTheme' = FALSE
    /\ toggleChecked' = FALSE
    /\ options' = <<>>
    /\ selected' = 0
    /\ pending' = <<>>
    /\ volChart' = NoChart
    /\ rangeChart' = NoChart
    /\ analysisTable' = NoTable
    /\ positionsTable' = NoTable
    /\ search' = <<>>
    /\ last' = Ran("reload")
    /\ UNCHANGED storedTheme

\* The user flips #themeToggle: its change handler.
ToggleChange ==
    /\ loaded
    /\ toggleChecked' = ~toggleChecked
    /\ IF toggleChecked'
         THEN dataTheme' = TRUE /\ storedTheme' = Item(T_light)
         ELSE dataTheme' = FALSE /\ storedTheme' = Item(T_dark)
    /\ last' = Ran("toggle")
    /\ UNCHANGED <<loaded, options, selected, pending, volChart, rangeChart,
                   analysisTable, positionsTable, search>>

\* The user picks another option of #symbol.
SelectSymbol(i) ==
    /\ loaded
    /\ i \in 1..Len(options)
    /\ i # selected
    /\ selected' = i
    /\ last' = Ran("select")
    /\ UNCHANGED <<loaded, storedTheme, dataTheme, toggleChecked, options,
                   pending, volChart, rangeChart, analysisTable,
                   positionsTable, search>>

\* A click that starts a fetch: the handler runs to its first await.
Issue(op, req) ==
    /\ loaded
    /\ Len(pending) < MaxInFlight
    /\ pending' = Append(pending, req)
    /\ last' = Ran(op)
    /\ UNCHANGED <<loaded, storedTheme, dataTheme, toggleChecked, options,
                   selected, volChart, rangeChart, analysisTable,
                   positionsTable, search>>

\* #refreshBtn click: fetchSymbols() up to await fetch
ClickRefresh == Issue("clickRefresh", Request("symbols", <<>>))

\* #loadBtn click: loadAnalysis() up to await fetch, the symbol already read
ClickLoad == Issue("clickLoad", Request("analysis", SymbolValue))

\* #positionsBtn click: up to await fetch
ClickPositions == Issue("clickPositions", Request("positions", <<>>))

-----------------------------------------------------------------------------
(* The continuations of the fetches. A handler touches nothing between its  *)
(* `await fetch` and its `await res.json()`, so the two resolutions of one   *)
(* fetch are one step, taken when the body has been read. The fetches       *)
(* resolve in any order. The server answers what it likes: its status (ok)  *)
(* and its body are inputs of the step.                                     *)

\* loadAnalysis and the positions handler: if(!res.ok){ alert(...); return; }
AlertsOnStatus(ok) == ~ok

\* AnalysisRenders without the status check: the body is rendered whatever
\* the status
AnalysisRendersAnyStatus(req, ok, body) == body.k = "array"

\* AnalysisRenders with a guard against stale responses: a response is dropped
\* when a load issued after it has already rendered
AnalysisRendersNewestOnly(req, ok, body) ==
    ok /\ body.k = "array" /\ ~req.overtaken

\* loadAnalysis reaches renderCharts(data); renderTable(data) and both run to
\* their end: the status is ok and the body parsed to an array (data.map of
\* anything else throws in renderCharts, before anything is drawn)
AnalysisRenders(req, ok, body) == ok /\ body.k = "array"

\* the positions handler reaches renderPositionsTable(data)
PositionsRenders(ok, body) == ok /\ body.k \in {"array", "object"}

\* fetchSymbols reaches symbolSel.innerHTML = '': res.ok is not looked at
SymbolsReplaces(ok, body) == body.k \in {"array", "object"}

\* the analysis loads issued before the i-th fetch and still in flight
OvertakenBy(i) ==
    [j \in 1..Len(pending) |->
        IF j < i /\ pending[j].kind = "analysis"
          THEN [pending[j] EXCEPT !.overtaken = TRUE]
          ELSE pending[j]]

\* fetchSymbols() from `await res.json()` on
ResolveSymbols(i, ok, body) ==
    /\ loaded
    /\ i \in 1..Len(pending)
    /\ pending[i].kind = "symbols"
    /\ pending' = RemoveAt(pending, i)
    /\ IF SymbolsReplaces(ok, body)
         THEN \* forEach of a value that is no array throws, the list emptied
              /\ options' = OptionsOf(body.items)
              /\ selected' = IF body.items = <<>> THEN 0 ELSE 1
         ELSE UNCHANGED <<options, selected>>
    /\ last' = Event("symbols", ok, body, FALSE, 0, NoDownload)
    /\ UNCHANGED <<loaded, storedTheme, dataTheme, toggleChecked, volChart,
                   rangeChart, analysisTable, positionsTable, search>>

\* loadAnalysis() from the status check on
ResolveAnalysis(i, ok, body) ==
    /\ loaded
    /\ i \in 1..Len(pending)
    /\ pending[i].kind = "analysis"
    /\ IF AnalysisRenders(pending[i], ok, body)
         THEN /\ volChart' = ChartOf(body.items, "avg_volume")
              /\ rangeChart' = ChartOf(body.items, "avg_range")
              /\ analysisTable' = renderTable(body.items)
              /\ pending' = RemoveAt(OvertakenBy(i), i)
         ELSE /\ UNCHANGED <<volChart, rangeChart, analysisTable>>
              /\ pending' = RemoveAt(pending, i)
    /\ last' = Event("analysis", ok, body, pending[i].overtaken,
                     IF AlertsOnStatus(ok) THEN 1 ELSE 0, NoDownload)
    /\ UNCHANGED <<loaded, storedTheme, dataTheme, toggleChecked, options,
                   selected, positionsTable, search>>

\* the #positionsBtn handler from the status check on
ResolvePositions(i, ok, body) ==
    /\ loaded
    /\ i \in 1..Len(pending)
    /\ pending[i].kind = "positions"
    /\ pending' = RemoveAt(pending, i)
    /\ IF PositionsRenders(ok, body)
         THEN \* container.innerHTML = '' comes first; positions.forEach of a
              \* value that is no array throws before the table is appended
              positionsTable' = IF body.k = "array"
                                  THEN renderPositionsTable(body.items)
                                  ELSE NoTable
         ELSE UNCHANGED positionsTable
    /\ last' = Event("positions", ok, body, FALSE,
                     IF AlertsOnStatus(ok) THEN 1 ELSE 0, NoDownload)
    /\ UNCHANGED <<loaded, storedTheme, dataTheme, toggleChecked, options,
                   selected, volChart, rangeChart, analysisTable, search>>

-----------------------------------------------------------------------------
(* The toolbar. *)

\* the query the input listener hands to filterTables
QueryOf(value) == trim(toLowerCase(value))

\* #globalSearch input: filterTables(e.target.value.toLowerCase().trim())
InputSearch(value) ==
    /\ loaded
    /\ value # search
    /\ search' = value
    /\ analysisTable' = filterTable(analysisTable, QueryOf(value))
    /\ positionsTable' = filterTable(positionsTable, QueryOf(value))
    /\ last' = Ran("input")
    /\ UNCHANGED <<loaded, storedTheme, dataTheme, toggleChecked, options,
                   selected, pending, volChart, rangeChart>>

\* ExportSource as document.querySelector('table'): the first table of the
\* page, whichever container holds it
ExportSourceAnyTable ==
    IF analysisTable.present THEN analysisTable ELSE positionsTable

\* document.querySelector('#table table')
ExportSource == analysisTable

\* what exportCurrentTableCSV saves: nothing when it finds no table
ExportFile ==
    IF ExportSource.present
      THEN [saved |-> TRUE, name |-> T_export_name, csv |-> CsvOf(ExportSource)]
      ELSE NoDownload

\* #exportBtn click: exportCurrentTableCSV()
ClickExport ==
    /\ loaded
    /\ last' = Event("export", TRUE, NoBody, FALSE,
                     IF ExportSource.present THEN 0 ELSE 1, ExportFile)
    /\ UNCHANGED <<loaded, storedTheme, dataTheme, toggleChecked, options,
                   selected, pending, volChart, rangeChart, analysisTable,
                   positionsTable, search>>

-----------------------------------------------------------------------------
(* The whole program: every handler, with every answer of the backend.      *)

PageStep == PageLoad \/ Reload

ThemeStep == ToggleChange

CatalogStep ==
    \/ ClickRefresh
    \/ \E i \in 1..Len(options) : SelectSymbol(i)
    \/ \E i \in 1..Len(pending), ok \in BOOLEAN, body \in Bodies(SymbolLists) :
          ResolveSymbols(i, ok, body)

ViewStep ==
    \/ ClickLoad
    \/ ClickPositions
    \/ \E i \in 1..Len(pending), ok \in BOOLEAN, body \in Bodies(AnalysisLists) :
          ResolveAnalysis(i, ok, body)
    \/ \E i \in 1..Len(pending), ok \in BOOLEAN, body \in Bodies(PositionsLists) :
          ResolvePositions(i, ok, body)

ToolbarStep ==
    \/ \E value \in SearchInputs : InputSearch(value)
    \/ ClickExport

Next == PageStep \/ ThemeStep \/ CatalogStep \/ ViewStep \/ ToolbarStep

Spec == Init /\ [][Next]_vars

-----------------------------------------------------------------------------
(* The components, each with the handlers that write what it shows. The     *)
(* handlers left out of a component's specification leave its part of the   *)
(* document unchanged (see their UNCHANGED).                                *)

\* ThemePreference and SymbolCatalog
ShellNext == PageStep \/ ThemeStep \/ CatalogStep

SpecShell == Init /\ [][ShellNext]_vars

\* AnalysisView and PositionsView, with the loads racing
ViewsNext == PageStep \/ CatalogStep \/ ViewStep

SpecViews == Init /\ [][ViewsNext]_vars

\* TableToolbar over the two views, for a user who starts a load only when
\* none is in flight
ToolbarNext ==
    \/ PageStep
    \/ \E i \in 1..Len(pending), ok \in BOOLEAN, body \in Bodies(SymbolLists) :
          ResolveSymbols(i, ok, body)
    \/ pending = <<>> /\ ClickLoad
    \/ pending = <<>> /\ ClickPositions
    \/ \E i \in 1..Len(pending), ok \in BOOLEAN, body \in Bodies(AnalysisLists) :
          ResolveAnalysis(i, ok, body)
    \/ \E i \in 1..Len(pending), ok \in BOOLEAN, body \in Bodies(PositionsLists) :
          ResolvePositions(i, ok, body)
    \/ ToolbarStep

SpecToolbar == Init /\ [][ToolbarNext]_vars

-----------------------------------------------------------------------------
(* ThemePreference. *)

\* the persisted setting, dark when nothing is stored under the key
EffectiveTheme == IF storedTheme.set THEN storedTheme.v ELSE T_dark

\* C2: once the page has loaded, the document carries the light-theme marker
\* exactly when the effective theme is light, and the toggle is checked
\* exactly when it is; a toggle change has stored light when it left the
\* toggle checked and dark when it left it unchecked; and the load itself
\* stores nothing.
C2_ThemeMarkerFollowsStorage ==
    /\ loaded => /\ dataTheme <=> (EffectiveTheme = T_light)
                 /\ toggleChecked <=> (EffectiveTheme = T_light)
    /\ last.op = "toggle" =>
          storedTheme = Item(IF toggleChecked THEN T_light ELSE T_dark)
    /\ storedTheme.set => storedTheme.v \in {T_light, T_dark}

\* a reload has re-applied light from storage: the handler that ran last is
\* the load, not a toggle change
C2_Witness ==
    /\ loaded
    /\ last.op = "load"
    /\ storedTheme = Item(T_light)
    /\ dataTheme
    /\ toggleChecked

-----------------------------------------------------------------------------
(* SymbolCatalog. *)

\* a refresh that failed: a status that is not 2xx, or a body that is no
\* JSON array
FailedRefresh(e) == e.op = "symbols" /\ (~e.ok \/ e.body.k # "array")

\* C8: a failed symbol-list refresh leaves the options of the selection
\* control, and the selected one, as they were.
C8_FailedRefreshKeepsOptions ==
    [][FailedRefresh(last') => options' = options /\ selected' = selected]_vars

-----------------------------------------------------------------------------
(* AnalysisView and PositionsView. *)

\* the handler that ran last is a load that was answered with a status that
\* is not 2xx
FailedLoad(e) == e.op \in {"analysis", "positions"} /\ ~e.ok

\* the handler that ran last is an analysis load answered 2xx with an array
RenderedAnalysis(e) == e.op = "analysis" /\ e.ok /\ e.body.k = "array"

\* the handler that ran last is a positions load answered 2xx with an array
RenderedPositions(e) == e.op = "positions" /\ e.ok /\ e.body.k = "array"

\* C3: a load answered with a non-success status, analysis or positions,
\* raises exactly one notification and renders nothing: the analysis table,
\* both charts and the positions table are exactly as before the step.
C3_FailedLoadNotifiesAndKeepsRender ==
    [][FailedLoad(last') =>
          /\ last'.alerts = 1
          /\ analysisTable' = analysisTable
          /\ volChart' = volChart
          /\ rangeChart' = rangeChart
          /\ positionsTable' = positionsTable]_vars

\* a positions load has failed with both tables and the charts on the page
C3_Witness ==
    /\ FailedLoad(last)
    /\ last.op = "positions"
    /\ last.alerts = 1
    /\ positionsTable.present /\ positionsTable.rows # <<>>
    /\ analysisTable.present /\ analysisTable.rows # <<>>
    /\ volChart.present

\* C4: after a successful analysis load the table has one body row per
\* record, in the order of the input, each row showing its record's three
\* fields, and the x-values of both charts are the hour_utc values of the
\* input in that order.
C4_RowsAndChartsFollowInput ==
    RenderedAnalysis(last) =>
        LET data == last.body.items
        IN  /\ analysisTable.present
            /\ Len(analysisTable.rows) = Len(data)
            /\ \A i \in 1..Len(data) :
                   analysisTable.rows[i].cells =
                       <<SetTextContent(data[i].hour_utc),
                         SetTextContent(data[i].avg_volume),
                         SetTextContent(data[i].avg_range)>>
            /\ volChart.present /\ rangeChart.present
            /\ Len(volChart.x) = Len(data) /\ Len(rangeChart.x) = Len(data)
            /\ \A i \in 1..Len(data) :
                   /\ volChart.x[i] = data[i].hour_utc
                   /\ rangeChart.x[i] = data[i].hour_utc

\* the spec's example, [{0,10,1},{1,20,2}]: two rows, x-values [0,1]
C4_Witness ==
    /\ RenderedAnalysis(last)
    /\ last.body.items = <<H0, H1>>
    /\ Len(analysisTable.rows) = 2
    /\ analysisTable.rows[1].cells = <<<<"0">>, <<"1", "0">>, <<"1">>>>
    /\ analysisTable.rows[2].cells = <<<<"1">>, <<"2", "0">>, <<"2">>>>
    /\ volChart.x = <<Num(0, 0), Num(1, 0)>>
    /\ rangeChart.x = <<Num(0, 0), Num(1, 0)>>

\* C9: a response of an analysis load that was overtaken (a load issued
\* after it has already rendered) is applied all the same when it resolves:
\* the table and the charts then show its data, not the newer load's.
C9_LastResolvedResponseWins ==
    (RenderedAnalysis(last) /\ last.overtaken) =>
        /\ analysisTable = renderTable(last.body.items)
        /\ volChart = ChartOf(last.body.items, "avg_volume")
        /\ rangeChart = ChartOf(last.body.items, "avg_range")

\* two loads were in flight, the later one rendered first, and with no
\* analysis load left in flight the page shows the earlier load's answer
C9_Witness ==
    /\ RenderedAnalysis(last)
    /\ last.overtaken
    /\ last.body.items = <<H3>>
    /\ \A j \in 1..Len(pending) : pending[j].kind # "analysis"
    /\ analysisTable.rows # <<>>
    /\ analysisTable.rows[1].cells[1] = <<"3">>

-----------------------------------------------------------------------------
(* TableToolbar: the export. *)

\* a CSV reader: the rows of cells a CSV text holds, with "" inside a quoted
\* cell read as one quote
RECURSIVE ParseCsvFrom(_, _, _, _, _, _)
ParseCsvFrom(s, i, quoted, cell, row, rows) ==
    IF i > Len(s) THEN rows
    ELSE IF quoted
      THEN IF s[i] = QUOTE
             THEN IF i < Len(s) /\ s[i + 1] = QUOTE
                    THEN ParseCsvFrom(s, i + 2, TRUE, Append(cell, QUOTE), row, rows)
                    ELSE ParseCsvFrom(s, i + 1, FALSE, cell, row, rows)
             ELSE ParseCsvFrom(s, i + 1, TRUE, Append(cell, s[i]), row, rows)
      ELSE CASE s[i] = QUOTE ->
                  ParseCsvFrom(s, i + 1, TRUE, cell, row, rows)
             [] s[i] = "," ->
                  ParseCsvFrom(s, i + 1, FALSE, <<>>, Append(row, cell), rows)
             [] s[i] = LF ->
                  ParseCsvFrom(s, i + 1, FALSE, <<>>, <<>>,
                               Append(rows, Append(row, cell)))
             [] OTHER ->
                  ParseCsvFrom(s, i + 1, FALSE, Append(cell, s[i]), row, rows)

ParseCsv(s) == ParseCsvFrom(s, 1, FALSE, <<>>, <<>>, <<>>)

\* the texts of a table, row by row: the header row, then every body row
TextsOf(table) ==
    <<table.head>> \o [i \in 1..Len(table.rows) |-> table.rows[i].cells]

RECURSIVE CountQuotes(_)
CountQuotes(s) ==
    IF s = <<>> THEN 0
    ELSE (IF Head(s) = QUOTE THEN 1 ELSE 0) + CountQuotes(Tail(s))

\* the length of a row's line: each cell wrapped in two quotes with its own
\* quotes doubled, a comma between cells, and the line feed
RECURSIVE CellsLength(_)
CellsLength(cells) ==
    IF cells = <<>> THEN 0
    ELSE Len(Head(cells)) + CountQuotes(Head(cells)) + 2 + CellsLength(Tail(cells))

RECURSIVE LinesLength(_)
LinesLength(texts) ==
    IF texts = <<>> THEN 0
    ELSE CellsLength(Head(texts)) + (Len(Head(texts)) - 1) + 1
             + LinesLength(Tail(texts))

\* "hour_utc","avg_volume","avg_range"\n"3","120.5","0.02"\n
ExampleCsv ==
    <<QUOTE>> \o T_hour_utc \o <<QUOTE, ",", QUOTE>> \o T_avg_volume
        \o <<QUOTE, ",", QUOTE>> \o T_avg_range \o <<QUOTE, LF>>
        \o <<QUOTE, "3", QUOTE, ",", QUOTE, "1", "2", "0", ".", "5", QUOTE, ",",
             QUOTE, "0", ".", "0", "2", QUOTE, LF>>

\* the table of the example: one row, [3, 120.5, 0.02], shown or hidden
IsExampleTable(table) ==
    /\ table.present
    /\ TextsOf(table) =
          <<<<T_hour_utc, T_avg_volume, T_avg_range>>,
            <<<<"3">>, <<"1", "2", "0", ".", "5">>, <<"0", ".", "0", "2">>>>>>

\* C5: with an analysis table on the page the export saves a CSV text that
\* reads back as the table's texts, header row first and every body row in
\* table order, hidden or not; every cell is wrapped in quotes with its
\* quotes doubled, cells are separated by commas and every row ends in a
\* line feed; the example table exports as the example text; and the export
\* leaves both tables, and so every row's visibility, as they were.
C5_ExportSerializesEveryRow ==
    [][last'.op = "export" =>
          /\ analysisTable' = analysisTable
          /\ positionsTable' = positionsTable
          /\ analysisTable.present =>
                /\ last'.file.saved
                /\ ParseCsv(last'.file.csv) = TextsOf(analysisTable)
                /\ Len(last'.file.csv) = LinesLength(TextsOf(analysisTable))
                /\ IsExampleTable(analysisTable) => last'.file.csv = ExampleCsv]_vars

\* an export of a table that has a row the filter has hidden, and a cell
\* with a double quote
C5_Witness ==
    /\ last.op = "export"
    /\ last.file.saved
    /\ \E i \in 1..Len(analysisTable.rows) : analysisTable.rows[i].hidden
    /\ \E i \in 1..Len(analysisTable.rows) :
          CountQuotes(analysisTable.rows[i].cells[2]) > 0
    /\ ParseCsv(last.file.csv) = TextsOf(analysisTable)

\* C6: the export looks at the analysis table alone: without one it raises
\* one notification and saves nothing, a positions table on the page or not;
\* with one it saves analysis_export.csv and raises no notification. The
\* analysis table is on the page exactly when an analysis load has rendered
\* since the page loaded (the charts are drawn by the same render).
C6_ExportNeedsAnalysisTable ==
    /\ last.op = "export" =>
          IF analysisTable.present
            THEN /\ last.file.saved
                 /\ last.file.name = T_export_name
                 /\ last.alerts = 0
            ELSE /\ ~last.file.saved
                 /\ last.alerts = 1
    /\ analysisTable.present <=> volChart.present

\* an export with a positions table on the page and no analysis table
C6_Witness ==
    /\ last.op = "export"
    /\ ~analysisTable.present
    /\ positionsTable.present /\ positionsTable.rows # <<>>
    /\ last.alerts = 1
    /\ ~last.file.saved

-----------------------------------------------------------------------------
(* TableToolbar: the filter. *)

\* the text a row shows: its cells' texts, tab-separated
VisibleText(row) == join(row.cells, <<TAB>>)

\* the row fails the query: the query is not empty and is no substring of
\* the row's visible text, lower-cased
FailsQuery(row, q) == q # <<>> /\ ~includes(toLowerCase(VisibleText(row)), q)

\* every body row of the table is hidden exactly when it fails the query
HiddenIffFails(table, q) ==
    \A i \in 1..Len(table.rows) :
        table.rows[i].hidden <=> FailsQuery(table.rows[i], q)

NoRowHidden(table) == \A i \in 1..Len(table.rows) : ~table.rows[i].hidden

\* C7: right after an input event every body row of both tables is hidden
\* exactly when the query (lower-cased and trimmed, as the listener passes
\* it) is not empty and is no substring of the row's lower-cased visible
\* text.
C7_HiddenIffFailsQuery ==
    last.op = "input" =>
        /\ HiddenIffFails(analysisTable, QueryOf(search))
        /\ HiddenIffFails(positionsTable, QueryOf(search))

\* C7, its second half, which holds: after an input event with an empty
\* query no row of either table is hidden
C7_EmptyQueryShowsEveryRow ==
    (last.op = "input" /\ QueryOf(search) = <<>>) =>
        NoRowHidden(analysisTable) /\ NoRowHidden(positionsTable)

\* C7, restricted to the rows that were shown before the input event, which
\* holds: such a row is hidden exactly when it fails the query
C7_ShownRowsHiddenIffFail ==
    [][last'.op = "input" =>
          \A i \in 1..Len(analysisTable.rows) :
              ~analysisTable.rows[i].hidden =>
                  (analysisTable'.rows[i].hidden
                      <=> FailsQuery(analysisTable.rows[i], QueryOf(search')))]_vars

-----------------------------------------------------------------------------
(* The badge of a status, over many statuses: the first positions load of   *)
(* a page, answered with one position whose status is drawn from            *)
(* StatusInputs.                                                            *)

BadgeNext ==
    \/ PageStep
    \/ \E i \in 1..Len(pending) :
          ResolveSymbols(i, TRUE, ArrayBody(<<Str(T_BTC), Str(T_ETH)>>))
    \/ pending = <<>> /\ ~positionsTable.present /\ ClickPositions
    \/ \E i \in 1..Len(pending), status \in StatusInputs :
          ResolvePositions(i, TRUE, ArrayBody(<<[PBTC EXCEPT !.status = status]>>))

SpecBadge == Init /\ [][BadgeNext]_vars

LowerLetters ==
    <<"a", "b", "c", "d", "e", "f", "g", "h", "i", "j", "k", "l", "m",
      "n", "o", "p", "q", "r", "s", "t", "u", "v", "w", "x", "y", "z">>

UpperLetters ==
    <<"A", "B", "C", "D", "E", "F", "G", "H", "I", "J", "K", "L", "M",
      "N", "O", "P", "Q", "R", "S", "T", "U", "V", "W", "X", "Y", "Z">>

\* the same character, or the two cases of one letter
SameIgnoringCase(c, d) ==
    \/ c = d
    \/ \E n \in 1..Len(LowerLetters) :
          {c, d} = {LowerLetters[n], UpperLetters[n]}

\* k occurs in s, the case of letters ignored
ContainsIgnoringCase(s, k) ==
    \E i \in 1..(Len(s) - Len(k) + 1) :
        \A j \in 1..Len(k) : SameIgnoringCase(s[i + j - 1], k[j])

\* the status is a text in which one of the keywords occurs
Mentions(status, keywords) ==
    /\ status.t = "string"
    /\ \E k \in keywords : ContainsIgnoringCase(status.s, k)

SuccessKeywords == {K_open, K_active, K_live}
ClosedKeywords == {K_closed, K_filled, K_cancel}
WarningKeywords == {K_partial, K_warning, K_risk}

\* the badge the rules give, the first rule that matches winning
BadgeByRule(status) ==
    IF Mentions(status, SuccessKeywords) THEN "success"
    ELSE IF Mentions(status, ClosedKeywords) THEN "muted"
    ELSE IF Mentions(status, WarningKeywords) THEN "warning"
    ELSE "muted"

\* C1: every row of a rendered positions table carries the badge the rules
\* give its position's status: success for open/active/live, else muted for
\* closed/filled/cancel, else warning for partial/warning/risk, else muted
\* (an empty or missing status included), the case of letters ignored.
C1_BadgeFollowsFirstMatchingRule ==
    RenderedPositions(last) =>
        /\ Len(positionsTable.rows) = Len(last.body.items)
        /\ \A i \in 1..Len(last.body.items) :
              /\ positionsTable.rows[i].badge \in {"success", "warning", "muted"}
              /\ positionsTable.rows[i].badge = BadgeByRule(last.body.items[i].status)

\* a status with a success keyword and a warning keyword, in other cases
\* than the keywords are written in, has the success badge
C1_Witness ==
    /\ RenderedPositions(last)
    /\ Len(last.body.items) = 1
    /\ last.body.items[1].status = Str(<<"r", "i", "s", "k", "O", "p", "e", "n">>)
    /\ positionsTable.rows[1].badge = "success"

====
